---- MODULE Spec2Model ----
(***************************************************************************)
(* Email intelligence agent (src/main.py): a linear LangGraph pipeline     *)
(* extract -> urgency -> expectations -> risk -> priority -> action_plan   *)
(* -> memory -> END over one mutable state dictionary, and the process-    *)
(* wide SenderMemory store of per-sender running averages.                  *)
(*                                                                          *)
(* Conventions of the model:                                                *)
(*  - text the code inspects character by character (sender addresses,     *)
(*    reply templates) is a sequence of one-character strings; text the    *)
(*    code only passes through (levels, priorities) is an atomic string;   *)
(*  - a JSON value is [t, s, n]: type tag, string payload, number payload  *)
(*    (a list is modelled by its length n, its items are never inspected); *)
(*  - scores are fixed-point numbers in hundredths (2.0 is 200);           *)
(*  - a Python dict is a function whose DOMAIN is the set of present keys. *)
(***************************************************************************)
EXTENDS Integers, Sequences, FiniteSets, TLC

VARIABLES
    pc,         \* position of the process: idle, a graph node, terminal, aborted
    state,      \* the EmailState dict threaded through the current run
    memory,     \* sender_memory.memory: dict sender -> record
    clock,      \* logical value of datetime.now()
    attempt,    \* loop variable of generate_action_plan's retry loop
    calls,      \* external calls generate_action_plan made in the current run
    reply,      \* resp: what the last llm.invoke of the current run returned
    runs,       \* number of app.invoke calls made by the process
    executed,   \* nodes that completed in the current run, in order
    completed,  \* per sender: number of runs that reached END
    stub,       \* the stubbed responses consumed by the run being recorded
    first       \* terminal state of the recorded run

vars == <<pc, state, memory, clock, attempt, calls, reply, runs, executed,
          completed, stub, first>>

\* ------------------------------------------------------------------ bounds

\* app.invoke calls per process in the pipeline specification.
MaxRuns == 2

\* update_sender calls in the store specification.
MaxUpdates == 7

\* ------------------------------------------------------------- characters

UpperCase == <<"A","B","C","D","E","F","G","H","I","J","K","L","M",
               "N","O","P","Q","R","S","T","U","V","W","X","Y","Z">>

LowerCase == <<"a","b","c","d","e","f","g","h","i","j","k","l","m",
               "n","o","p","q","r","s","t","u","v","w","x","y","z">>

\* str.lower() on one character.
LowerChar(c) ==
    IF \E i \in DOMAIN UpperCase : UpperCase[i] = c
    THEN LowerCase[CHOOSE i \in DOMAIN UpperCase : UpperCase[i] = c]
    ELSE c

\* str.lower()
Lower(s) == [i \in DOMAIN s |-> LowerChar(s[i])]

\* Python's `sub in s` on character sequences.
Contains(s, sub) ==
    \E i \in 0..(Len(s) - Len(sub)) :
        \A j \in 1..Len(sub) : s[i + j] = sub[j]

\* --------------------------------------------------------------- JSON

JStr(x)  == [t |-> "str",  s |-> x,  n |-> 0]
JNum(x)  == [t |-> "num",  s |-> "", n |-> x]
\* a list of k items; `name` labels its contents
JItems(name, k) == [t |-> "list", s |-> name, n |-> k]
JList(k) == JItems("", k)
JNull    == [t |-> "null", s |-> "", n |-> 0]
\* a JSON string whose characters the code inspects
JText(cs) == [t |-> "text", s |-> cs, n |-> 0]

\* float(v): numbers convert; None and lists raise TypeError; the strings of
\* the modelled responses are non-numeric words, for which float raises
\* ValueError.
FloatOk(v) == v.t = "num"
Float(v)   == v.n

\* Python truth value of a JSON value (`not steps`).
Truthy(v) ==
    CASE v.t = "null" -> FALSE
      [] v.t = "num"  -> v.n # 0
      [] v.t = "list" -> v.n > 0
      [] v.t = "str"  -> v.s # ""
      [] v.t = "text" -> Len(v.s) > 0
      [] OTHER        -> TRUE

\* len(v) is defined for strings and lists, a TypeError otherwise.
HasLen(v) == v.t \in {"list", "str", "text"}

\* A model response: the call raised ("raise"), or returned content that is
\* unparseable text ("text"), a JSON document that is not an object
\* ("json_list"), or a JSON object ("json_dict", val its keys and values).
\* fenced: the content is wrapped in a ``` code fence.
Resp(kind, fenced, val) == [kind |-> kind, fenced |-> fenced, val |-> val]

NoVal == <<>>

\* no call made yet in this run
NoReply == Resp("none", FALSE, NoVal)

\* json.loads(resp.content) of the classification stages: the content is
\* parsed as it is, so a fenced document is a parse error.
LoadsOk(r)   == r.kind \in {"json_list", "json_dict"} /\ ~r.fenced
\* data[key] succeeds only on an object that has the key (KeyError on a
\* missing key, TypeError on a list).
HasKey(r, k) == r.kind = "json_dict" /\ k \in DOMAIN r.val

\* ------------------------------------------------------- raw emails

\* A raw email is a sequence of lines; a line is its first word (a header
\* name, without the colon) and the whitespace-separated tokens after it.
Line(word, toks) == [word |-> word, toks |-> toks]

W_From    == <<"F","r","o","m">>
W_from    == <<"f","r","o","m">>
W_Subject == <<"S","u","b","j","e","c","t">>
W_To      == <<"T","o">>
W_Dear    == <<"D","e","a","r">>

T_Jane    == <<"J","a","n","e">>
T_Hi      == <<"H","i">>
T_Alert   == <<"A","l","e","r","t">>

A_FooBar  == <<"F","o","o","@","B",".","c","o">>
A_foobar  == <<"f","o","o","@","b",".","c","o">>
A_NoReply == <<"N","o","-","R","e","p","l","y","@","g",".","c","o">>
A_me      == <<"m","e","@","x",".","c","o">>

Angle(a) == <<"<">> \o a \o <<">">>

\* The inputs of the model: a display-name sender with a mixed-case
\* bracketed address, the same address in lower case as a bare token, a
\* no-reply sender, and a message with no From and no Subject header.
RawEmails == <<
    << Line(W_From, <<T_Jane, Angle(A_FooBar)>>),
       Line(W_Subject, <<T_Hi>>),
       Line(W_To, <<A_me>>) >>,
    << Line(W_from, <<A_foobar>>),
       Line(W_To, <<Angle(A_me)>>) >>,
    << Line(W_From, <<Angle(A_NoReply)>>),
       Line(W_Subject, <<T_Alert, T_Hi>>) >>,
    << Line(W_Dear, <<T_Jane>>) >>
>>

Emails == DOMAIN RawEmails

\* ------------------------------------------------------------ extraction

UnknownSender ==
    <<"u","n","k","n","o","w","n","@","e","x","a","m","p","l","e",".","c","o","m">>

NoSubject == << <<"N","o">>, <<"s","u","b","j","e","c","t">> >>

\* [^>\s]+@[^>\s]+ on a token (a token holds no whitespace): the longest
\* prefix free of ">" must hold an "@" with a character on each side.
RECURSIVE UpToClose(_)
UpToClose(tok) ==
    IF tok = <<>> \/ Head(tok) = ">" THEN <<>>
    ELSE <<Head(tok)>> \o UpToClose(Tail(tok))

AddrShaped(tok) == \E i \in 2..(Len(tok) - 1) : tok[i] = "@"

\* (?:.*<)? is greedy: the address after the last "<" of the line that is
\* followed by an address-shaped run is preferred.
AngleAddrs(toks) ==
    { i \in DOMAIN toks :
        /\ Len(toks[i]) > 0
        /\ toks[i][1] = "<"
        /\ AddrShaped(UpToClose(Tail(toks[i]))) }

Max(S) == CHOOSE x \in S : \A y \in S : y <= x
Min(S) == CHOOSE x \in S : \A y \in S : x <= y

\* The match of From:?\s*(?:.*<)?([^>\s]+@[^>\s]+) at one line, <<>> if the
\* pattern does not match there.
FromMatch(line) ==
    IF Lower(line.word) # W_from THEN <<>>
    ELSE IF AngleAddrs(line.toks) # {}
         THEN UpToClose(Tail(line.toks[Max(AngleAddrs(line.toks))]))
    ELSE IF line.toks # <<>> /\ AddrShaped(UpToClose(line.toks[1]))
         THEN UpToClose(line.toks[1])
    ELSE <<>>

\* re.search: the leftmost match, flags re.I.
ExtractSender(raw) ==
    LET hits == { i \in DOMAIN raw : FromMatch(raw[i]) # <<>> }
    IN  IF hits = {} THEN UnknownSender ELSE FromMatch(raw[Min(hits)])

\* Subject:?\s*(.+) then .strip(): the tokens after the header word.
ExtractSubject(raw) ==
    LET hits == { i \in DOMAIN raw :
                    Lower(raw[i].word) = Lower(W_Subject) /\ raw[i].toks # <<>> }
    IN  IF hits = {} THEN NoSubject ELSE raw[Min(hits)].toks

\* extract_and_parse: the partial update the node returns. The body is the
\* whole raw text (named by its index, as raw_email is).
extract_and_parse(st) ==
    [sender  |-> ExtractSender(RawEmails[st["raw_email"]]),
     subject |-> ExtractSubject(RawEmails[st["raw_email"]]),
     body    |-> st["raw_email"]]

\* LangGraph merges a node's partial update into the state key by key.
Merge(st, upd) ==
    [k \in DOMAIN st \cup DOMAIN upd |->
        IF k \in DOMAIN upd THEN upd[k] ELSE st[k]]

\* -------------------------------------------------- classification stages

UrgencyDefault ==
    [urgency_level |-> JStr("medium"), urgency_score |-> 200,
     urgency_triggers |-> JList(0)]

\* Mutant of analyze_urgency: the score is read with a default
\* (data.get("urgency_score", 2.0)), so an object without it is accepted.
analyze_urgency_lenient(r) ==
    IF LoadsOk(r) /\ HasKey(r, "urgency_level")
    THEN [urgency_level    |-> r.val["urgency_level"],
          urgency_score    |-> IF HasKey(r, "urgency_score")
                                  /\ FloatOk(r.val["urgency_score"])
                               THEN Float(r.val["urgency_score"]) ELSE 200,
          urgency_triggers |-> IF "triggers" \in DOMAIN r.val
                               THEN r.val["triggers"] ELSE JList(0)]
    ELSE UrgencyDefault

\* analyze_urgency once llm.invoke has returned r.
analyze_urgency(r) ==
    IF /\ LoadsOk(r)
       /\ HasKey(r, "urgency_level")
       /\ HasKey(r, "urgency_score")
       /\ FloatOk(r.val["urgency_score"])
    THEN [urgency_level    |-> r.val["urgency_level"],
          urgency_score    |-> Float(r.val["urgency_score"]),
          urgency_triggers |-> IF "triggers" \in DOMAIN r.val
                               THEN r.val["triggers"] ELSE JList(0)]
    ELSE UrgencyDefault

ExpectationsDefault == [expectations |-> JList(0), expectation_score |-> 0]

\* detect_hidden_expectations once llm.invoke has returned r.
detect_hidden_expectations(r) ==
    IF /\ LoadsOk(r)
       /\ HasKey(r, "expectations")
       /\ HasKey(r, "expectation_score")
       /\ FloatOk(r.val["expectation_score"])
    THEN [expectations      |-> r.val["expectations"],
          expectation_score |-> Float(r.val["expectation_score"])]
    ELSE ExpectationsDefault

RiskDefault ==
    [risk_flags |-> JList(0), risk_score |-> 0, risk_level |-> JStr("LOW")]

\* assess_risk once llm.invoke has returned r.
assess_risk(r) ==
    IF /\ LoadsOk(r)
       /\ HasKey(r, "risk_flags")
       /\ HasKey(r, "risk_score")
       /\ FloatOk(r.val["risk_score"])
       /\ HasKey(r, "risk_level")
    THEN [risk_flags |-> r.val["risk_flags"],
          risk_score |-> Float(r.val["risk_score"]),
          risk_level |-> r.val["risk_level"]]
    ELSE RiskDefault

PriorityDefault == [priority |-> JStr("MEDIUM"), priority_score |-> 500]

\* classify_priority once llm.invoke has returned r.
classify_priority(r) ==
    IF /\ LoadsOk(r)
       /\ HasKey(r, "priority")
       /\ HasKey(r, "priority_score")
       /\ FloatOk(r.val["priority_score"])
    THEN [priority       |-> r.val["priority"],
          priority_score |-> Float(r.val["priority_score"])]
    ELSE PriorityDefault

\* ---------------------------------------------------------- action planner

S_null == <<"n","u","l","l">>
S_none == <<"n","o","n","e">>

\* str(v): the text of a string is itself; the text of a number or a list
\* is none of "null", "none", "".
StrOf(v) == IF v.t = "text" THEN v.s ELSE <<"?">>

\* The fence removal and json.loads of generate_action_plan: with a ```
\* in the content the text from the first "{" to the last "}" is parsed,
\* which is the object of a fenced object and nothing parseable otherwise.
\* The result must be an object for data.get to exist.
PlanLoadsDict(r) == r.kind = "json_dict"

PlanGet(r, k, dflt) == IF k \in DOMAIN r.val THEN r.val[k] ELSE dflt

\* Whether one pass of the try block reaches its return.
PlanSucceeds(r) ==
    /\ r.kind # "raise"
    /\ PlanLoadsDict(r)
    /\ Truthy(PlanGet(r, "action_steps", JList(0)))
    /\ HasLen(PlanGet(r, "action_steps", JList(0)))

\* The "final cleanup" of the template.
CleanTemplate(t) ==
    IF t.t = "null" \/ Lower(StrOf(t)) \in {S_null, S_none, <<>>}
    THEN JText(<<>>) ELSE t

PlanResult(r) ==
    [action_plan       |-> PlanGet(r, "action_steps", JList(0)),
     response_template |-> CleanTemplate(PlanGet(r, "response_template", JNull))]

PlanFallback ==
    [action_plan       |-> JItems("manual-verify", 3),
     response_template |-> JText(<<>>)]

\* range(3), and the `attempt == 2` of the except block
MaxAttempts == 3
LastAttempt == 2

\* ------------------------------------------------------------ SenderMemory

None == 0

DefaultHistory ==
    [email_count |-> 0, avg_urgency |-> 0, avg_risk |-> 0,
     patterns |-> <<>>, first_seen |-> None, last_seen |-> None]

\* Mutant of get_sender_history: the lookup never finds the record.
get_sender_history_miss(mem, sender) == DefaultHistory

\* SenderMemory.get_sender_history: dict.get under the key as given.
get_sender_history(mem, sender) ==
    IF sender \in DOMAIN mem THEN mem[sender] ELSE DefaultHistory

\* round(num/den, 2) on hundredths: to the nearest, ties to even.
Round2(num, den) ==
    LET q == num \div den
        r == num % den
    IN  IF 2 * r < den THEN q
        ELSE IF 2 * r > den THEN q + 1
        ELSE IF q % 2 = 0 THEN q ELSE q + 1

\* The new running average computed from the stored (rounded) average.
NewAvg(avg, n, score) == Round2(avg * n + score, n + 1)

\* history["email_count"] + 1
NewCount(history) == history.email_count + 1

\* Mutant of update_sender: the store is replaced by the one record
\* (self.memory = {sender: ...}) instead of being updated.
update_sender_replace(mem, sender, urgency_score, risk_score, now) ==
    LET history == get_sender_history(mem, sender)
    IN  [k \in {sender} |->
            [email_count |-> NewCount(history),
             avg_urgency |-> NewAvg(history.avg_urgency,
                                    history.email_count, urgency_score),
             avg_risk    |-> NewAvg(history.avg_risk,
                                    history.email_count, risk_score),
             patterns    |-> Append(history.patterns,
                                    [timestamp |-> now,
                                     urgency |-> urgency_score,
                                     risk |-> risk_score]),
             first_seen  |-> IF history.first_seen # None
                             THEN history.first_seen ELSE now,
             last_seen   |-> now]]

\* SenderMemory.update_sender: the store after the call.
update_sender(mem, sender, urgency_score, risk_score, now) ==
    LET history == get_sender_history(mem, sender)
        rec == [email_count |-> NewCount(history),
                avg_urgency |-> NewAvg(history.avg_urgency,
                                       history.email_count, urgency_score),
                avg_risk    |-> NewAvg(history.avg_risk,
                                       history.email_count, risk_score),
                patterns    |-> Append(history.patterns,
                                       [timestamp |-> now,
                                        urgency |-> urgency_score,
                                        risk |-> risk_score]),
                first_seen  |-> IF history.first_seen # None
                                THEN history.first_seen ELSE now,
                last_seen   |-> now]
    IN  [k \in DOMAIN mem \cup {sender} |->
            IF k = sender THEN rec ELSE mem[k]]

\* ------------------------------------------------- modelled model replies

T_Ok   == <<"O","k">>
T_NULL == <<"N","U","L","L">>

Raise == Resp("raise", FALSE, NoVal)
Prose == Resp("text", FALSE, NoVal)
Obj(val)       == Resp("json_dict", FALSE, val)
FencedObj(val) == Resp("json_dict", TRUE, val)

\* Replies to the urgency prompt: a failed call, prose, a fenced object, a
\* well-formed object, an upper-case level, a level that is a number, an
\* object without the score.
UrgencyResponses == <<
    Raise,
    Prose,
    FencedObj([urgency_level |-> JStr("critical"), urgency_score |-> JNum(400)]),
    Obj([urgency_level |-> JStr("high"), urgency_score |-> JNum(300)]),
    Obj([urgency_level |-> JStr("HIGH"), urgency_score |-> JNum(300),
         triggers |-> JList(1)]),
    Obj([urgency_level |-> JNum(3), urgency_score |-> JNum(200)]),
    Obj([urgency_level |-> JStr("low")]) >>

ExpectationsResponses == <<
    Raise,
    Prose,
    Obj([expectations |-> JList(1), expectation_score |-> JNum(50)]) >>

RiskResponses == <<
    Raise,
    Resp("json_list", FALSE, NoVal),
    Obj([risk_flags |-> JList(1), risk_score |-> JNum(700),
         risk_level |-> JStr("HIGH")]),
    Obj([risk_flags |-> JList(0), risk_score |-> JNum(0),
         risk_level |-> JStr("low")]) >>

PriorityResponses == <<
    Raise,
    Obj([priority |-> JStr("URGENT")]),
    Obj([priority |-> JStr("URGENT"), priority_score |-> JNum(800)]) >>

PlanResponses == <<
    Raise,
    Prose,
    Obj([action_steps |-> JList(0), response_template |-> JText(T_Ok)]),
    FencedObj([action_steps |-> JList(2), response_template |-> JText(T_Ok)]),
    Obj([action_steps |-> JList(1), response_template |-> JText(T_NULL)]),
    Obj([action_steps |-> JList(2)]) >>

Range(seq) == { seq[i] : i \in DOMAIN seq }

\* ------------------------------------------------------------- the graph

\* workflow.add_edge(...): the single successor of each node.
NextNode(node) ==
    CASE node = "extract"      -> "urgency"
      [] node = "urgency"      -> "expectations"
      [] node = "expectations" -> "risk"
      [] node = "risk"         -> "priority"
      [] node = "priority"     -> "action_plan"
      [] node = "action_plan"  -> "memory"
      [] node = "memory"       -> "terminal"

\* workflow.set_entry_point("extract")
EntryPoint == "extract"

StageOrder == <<"extract", "urgency", "expectations", "risk", "priority",
                "action_plan", "memory">>

\* A node returned `upd`: the update is merged and the successor is next.
Completes(node, upd) ==
    /\ state' = Merge(state, upd)
    /\ executed' = Append(executed, node)
    /\ pc' = NextNode(node)

\* An exception left the node: it propagates out of app.invoke, which the
\* caller (__main__) does not catch.
Aborts ==
    /\ pc' = "aborted"
    /\ UNCHANGED <<state, executed>>

\* app.invoke({"raw_email": email})
Invoke(e) ==
    /\ pc \in {"idle", "terminal"}
    /\ runs < MaxRuns
    /\ runs' = runs + 1
    /\ state' = [raw_email |-> e]
    /\ executed' = <<>>
    /\ pc' = EntryPoint
    /\ attempt' = 0
    /\ calls' = 0
    /\ reply' = NoReply
    /\ UNCHANGED <<memory, clock, completed>>

Extract ==
    /\ pc = "extract"
    /\ Completes("extract", extract_and_parse(state))
    /\ UNCHANGED <<memory, clock, attempt, calls, reply, runs, completed>>

\* A classification node: llm.invoke is outside the try block, so a failed
\* call leaves the node as an exception.
Classify(node, r, upd) ==
    /\ pc = node
    /\ reply' = r
    /\ IF r.kind = "raise" THEN Aborts ELSE Completes(node, upd)
    /\ UNCHANGED <<memory, clock, attempt, calls, runs, completed>>

Urgency(r)      == Classify("urgency", r, analyze_urgency(r))
Expectations(r) == Classify("expectations", r, detect_hidden_expectations(r))
Risk(r)         == Classify("risk", r, assess_risk(r))
Priority(r)     == Classify("priority", r, classify_priority(r))

\* generate_action_plan up to the loop: the prompt calls .upper() on
\* state['urgency_level'], an AttributeError unless it is a string.
PlanEnter ==
    /\ pc = "action_plan"
    /\ IF state["urgency_level"].t = "str"
       THEN /\ pc' = "plan_call"
            /\ UNCHANGED <<state, executed>>
       ELSE Aborts
    /\ attempt' = 0
    /\ UNCHANGED <<memory, clock, calls, reply, runs, completed>>

\* One pass of the retry loop: the call, then the try block or the except
\* block.
PlanAttempt(r) ==
    /\ pc = "plan_call"
    /\ attempt < MaxAttempts
    /\ calls' = calls + 1
    /\ reply' = r
    /\ IF PlanSucceeds(r)
       THEN /\ Completes("action_plan", PlanResult(r))
            /\ UNCHANGED attempt
       ELSE IF attempt = LastAttempt
       THEN /\ Completes("action_plan", PlanFallback)
            /\ UNCHANGED attempt
       ELSE /\ attempt' = attempt + 1
            /\ UNCHANGED <<pc, state, executed>>
    /\ UNCHANGED <<memory, clock, runs, completed>>

Bump(f, k) == [x \in DOMAIN f \cup {k} |-> IF x \in DOMAIN f THEN
                  (IF x = k THEN f[x] + 1 ELSE f[x]) ELSE 1]

\* update_memory, after which the graph reaches END.
Memory ==
    /\ pc = "memory"
    /\ memory' = update_sender(memory, state["sender"], state["urgency_score"],
                               state["risk_score"], clock)
    /\ clock' = clock + 1
    /\ Completes("memory",
                 [sender_history |-> get_sender_history(memory', state["sender"])])
    /\ completed' = Bump(completed, state["sender"])
    /\ UNCHANGED <<attempt, calls, reply, runs>>

NoStub == [email |-> 0, log |-> <<>>, todo |-> <<>>]

Init ==
    /\ pc = "idle"
    /\ state = <<>>
    /\ memory = <<>>
    /\ clock = 1
    /\ attempt = 0
    /\ calls = 0
    /\ reply = NoReply
    /\ runs = 0
    /\ executed = <<>>
    /\ completed = <<>>
    /\ stub = NoStub
    /\ first = <<>>

\* The process of __main__: app.invoke on one email after another, every
\* model reply free.
Next ==
    \/ \E e \in Emails : Invoke(e) /\ UNCHANGED <<stub, first>>
    \/ Extract /\ UNCHANGED <<stub, first>>
    \/ \E r \in Range(UrgencyResponses) : Urgency(r) /\ UNCHANGED <<stub, first>>
    \/ \E r \in Range(ExpectationsResponses) :
          Expectations(r) /\ UNCHANGED <<stub, first>>
    \/ \E r \in Range(RiskResponses) : Risk(r) /\ UNCHANGED <<stub, first>>
    \/ \E r \in Range(PriorityResponses) : Priority(r) /\ UNCHANGED <<stub, first>>
    \/ PlanEnter /\ UNCHANGED <<stub, first>>
    \/ \E r \in Range(PlanResponses) : PlanAttempt(r) /\ UNCHANGED <<stub, first>>
    \/ Memory /\ UNCHANGED <<stub, first>>

Spec == Init /\ [][Next]_vars

\* ----------------------------------------------- re-running one email

\* The first run of the process records the email and the replies it
\* consumed (a stub of the model); every later run is given the same email
\* and the same replies in the same order.
Stubbed(r) ==
    IF runs = 1
    THEN stub' = [stub EXCEPT !.log = Append(@, r)]
    ELSE /\ stub.todo # <<>>
         /\ r = Head(stub.todo)
         /\ stub' = [stub EXCEPT !.todo = Tail(@)]

RerunInvoke(e) ==
    /\ Invoke(e)
    /\ IF runs = 0
       THEN stub' = [email |-> e, log |-> <<>>, todo |-> <<>>]
       ELSE /\ e = stub.email
            /\ stub' = [stub EXCEPT !.todo = stub.log]
    /\ UNCHANGED first

RerunMemory ==
    /\ Memory
    /\ first' = IF runs = 1 THEN state' ELSE first
    /\ UNCHANGED stub

NextRerun ==
    \/ \E e \in Emails : RerunInvoke(e)
    \/ Extract /\ UNCHANGED <<stub, first>>
    \/ \E r \in Range(UrgencyResponses) :
          Urgency(r) /\ Stubbed(r) /\ UNCHANGED first
    \/ \E r \in Range(ExpectationsResponses) :
          Expectations(r) /\ Stubbed(r) /\ UNCHANGED first
    \/ \E r \in Range(RiskResponses) :
          Risk(r) /\ Stubbed(r) /\ UNCHANGED first
    \/ \E r \in Range(PriorityResponses) :
          Priority(r) /\ Stubbed(r) /\ UNCHANGED first
    \/ PlanEnter /\ UNCHANGED <<stub, first>>
    \/ \E r \in Range(PlanResponses) :
          PlanAttempt(r) /\ Stubbed(r) /\ UNCHANGED first
    \/ RerunMemory

SpecRerun == Init /\ [][NextRerun]_vars

\* ------------------------------------------------ the store on its own

\* Urgency and risk scores handed to update_sender.
MemScores == { <<200, 0>>, <<300, 700>> }

\* Emails whose senders differ only in letter case.
MemEmails == {1, 2}

\* sender_memory.update_sender called MaxUpdates times with the senders the
\* extractor yields.
MemUpdate(e, sc) ==
    /\ clock <= MaxUpdates
    /\ memory' = update_sender(memory, ExtractSender(RawEmails[e]),
                               sc[1], sc[2], clock)
    /\ clock' = clock + 1
    /\ UNCHANGED <<pc, state, attempt, calls, reply, runs, executed,
                   completed, stub, first>>

NextMem == \E e \in MemEmails, sc \in MemScores : MemUpdate(e, sc)

SpecMem == Init /\ [][NextMem]_vars

\* ================================================================ claims

IsPrefix(a, b) == Len(a) <= Len(b) /\ \A i \in DOMAIN a : a[i] = b[i]

\* The node the process is in, if any.
InNode == IF pc = "plan_call" THEN "action_plan" ELSE pc

Ended == pc \in {"terminal", "aborted"}

\* C1: in every run the stages execute in exactly the order extract,
\* urgency, expectations, risk, priority, action-plan, memory-update,
\* terminal: the nodes that have completed are a prefix of that order, the
\* node running is the one after them, and a run that has ended (its
\* app.invoke returned or raised) has executed every stage exactly once.
C1_StagesExactlyOnceInOrder ==
    /\ IsPrefix(executed, StageOrder)
    /\ InNode \in Range(StageOrder) => InNode = StageOrder[Len(executed) + 1]
    /\ Ended => executed = StageOrder

\* C2: no error aborts a run before the terminal state, whatever the email
\* and whatever each model call does.
C2_NeverAborts == pc # "aborted"

ClassifyNodes == {"urgency", "expectations", "risk", "priority"}

\* The keys of each stage's documented output.
RequiredKeys(node) ==
    CASE node = "urgency"      -> {"urgency_level", "urgency_score"}
      [] node = "expectations" -> {"expectations"}
      [] node = "risk"         -> {"risk_level"}
      [] node = "priority"     -> {"priority"}

\* The content as returned is not a JSON document.
NotJson(r) == r.kind = "text" \/ r.fenced

LacksKey(node, r) ==
    \/ r.kind = "json_list"
    \/ r.kind = "json_dict" /\ ~(RequiredKeys(node) \subseteq DOMAIN r.val)

DocumentedDefault(node, st) ==
    CASE node = "urgency" ->
            st["urgency_level"] = JStr("medium") /\ st["urgency_score"] = 200
      [] node = "expectations" -> st["expectations"] = JList(0)
      [] node = "risk"         -> st["risk_level"] = JStr("LOW")
      [] node = "priority"     -> st["priority"] = JStr("MEDIUM")

S_no_reply == <<"n","o","-","r","e","p","l","y">>
S_noreply  == <<"n","o","r","e","p","l","y">>

IsNoReply(sender) ==
    \/ Contains(Lower(sender), S_no_reply)
    \/ Contains(Lower(sender), S_noreply)

\* C4: in every run whose sender address contains "no-reply" or "noreply"
\* (case-insensitively) the response template after the action-plan stage
\* and in the terminal state is empty, whatever template the model returned.
C4_NoReplySuppressed ==
    ("response_template" \in DOMAIN state /\ IsNoReply(state["sender"]))
        => state["response_template"] = JText(<<>>)

RECURSIVE SumUrgency(_)
SumUrgency(patterns) ==
    IF patterns = <<>> THEN 0
    ELSE Head(patterns).urgency + SumUrgency(Tail(patterns))

\* C5: after N >= 1 updates of a sender with scores u1..uN the stored
\* average urgency equals (u1+...+uN)/N rounded to two decimals.
C5_AverageIsTrueMean ==
    \A s \in DOMAIN memory :
        memory[s].avg_urgency =
            Round2(SumUrgency(memory[s].patterns), Len(memory[s].patterns))

AllSenders == { ExtractSender(RawEmails[e]) : e \in Emails }

CompletedRuns(s) == IF s \in DOMAIN completed THEN completed[s] ELSE 0

C6_Counts ==
    /\ DOMAIN memory = DOMAIN completed
    /\ \A s \in AllSenders :
          get_sender_history(memory, s).email_count = CompletedRuns(s)
    /\ pc = "terminal" =>
          state["sender_history"].email_count = CompletedRuns(state["sender"])

C6_StoreStep ==
    /\ memory' # memory => pc = "memory"
    /\ DOMAIN memory \subseteq DOMAIN memory'
    /\ \A s \in DOMAIN memory : memory'[s].email_count >= memory[s].email_count
    /\ (pc = "memory" /\ pc' # "memory") =>
          \A s \in AllSenders :
              get_sender_history(memory', s).email_count =
                  get_sender_history(memory, s).email_count
                      + (IF s = state["sender"] THEN 1 ELSE 0)

\* C6: the sender record is updated exactly once per completed run: every
\* sender's stored count equals the number of completed runs with that
\* sender (no record and count 0 without one), only the memory-update stage
\* changes the store, no record is deleted, no count decreases, and the
\* snapshot in a terminal state carries the count after that run's update.
C6_OncePerCompletedRun == []C6_Counts /\ [][C6_StoreStep]_vars

\* C6 witness: a second run of one sender has completed.
C6_Witness ==
    /\ pc = "terminal"
    /\ CompletedRuns(state["sender"]) = 2
    /\ state["sender_history"].email_count = 2

\* C7: sender keys are case-insensitive: two addresses that differ only in
\* letter case read the same record, and updates under both accumulate into
\* one record.
C7_CaseInsensitiveKeys ==
    \A s, t \in AllSenders :
        Lower(s) = Lower(t) =>
            get_sender_history(memory, s) = get_sender_history(memory, t)

NoTimes(h) ==
    [email_count |-> h.email_count,
     avg_urgency |-> h.avg_urgency,
     avg_risk    |-> h.avg_risk,
     patterns    |-> [i \in DOMAIN h.patterns |->
                        [urgency |-> h.patterns[i].urgency,
                         risk    |-> h.patterns[i].risk]]]

AgreeButHistory(a, b) ==
    /\ DOMAIN a = DOMAIN b
    /\ \A k \in DOMAIN a \ {"sender_history"} : a[k] = b[k]

Rerun == pc = "terminal" /\ runs >= 2

\* C8 as stated: running the orchestrator again on the same email with the
\* same stubbed replies yields a terminal state that agrees with the first
\* on every field, the timestamps inside senderHistory excepted.
C8_RerunIdentical ==
    Rerun => /\ AgreeButHistory(state, first)
             /\ NoTimes(state["sender_history"]) = NoTimes(first["sender_history"])

\* C8 as amended: the two terminal states agree on every field other than
\* senderHistory, and senderHistory shows the store growing: each re-run
\* adds one to the email count and one entry to the patterns.
C8_RerunAgreesButHistory ==
    Rerun => /\ AgreeButHistory(state, first)
             /\ state["sender_history"].email_count =
                   first["sender_history"].email_count + (runs - 1)
             /\ Len(state["sender_history"].patterns) =
                   Len(first["sender_history"].patterns) + (runs - 1)

\* C8 witness: the second run of the same email with the same replies has
\* ended, with a reply template produced by the model.
C8_Witness ==
    /\ Rerun
    /\ stub.todo = <<>>
    /\ state["response_template"] = JText(T_Ok)
    /\ first["sender_history"].email_count = 1
    /\ state["sender_history"].email_count = 2

UrgencyLevels == { JStr(x) : x \in {"critical", "high", "medium", "low"} }
RiskLevels    == { JStr(x) : x \in {"LOW", "MEDIUM", "HIGH", "CRITICAL"} }
Priorities    == { JStr(x) : x \in {"VERIFY", "URGENT", "HIGH", "MEDIUM", "LOW"} }

\* C9: once the corresponding stage has run, urgencyLevel is one of
\* critical, high, medium, low (lower case), riskLevel one of LOW, MEDIUM,
\* HIGH, CRITICAL and priority one of VERIFY, URGENT, HIGH, MEDIUM, LOW,
\* whatever the model put in its parseable reply.
C9_EnumFields ==
    /\ "urgency_level" \in DOMAIN state => state["urgency_level"] \in UrgencyLevels
    /\ "risk_level" \in DOMAIN state => state["risk_level"] \in RiskLevels
    /\ "priority" \in DOMAIN state => state["priority"] \in Priorities

\* A reply that is parseable JSON with a non-empty action list.
HasActionList(r) ==
    /\ r.kind = "json_dict"
    /\ "action_steps" \in DOMAIN r.val
    /\ r.val["action_steps"].t = "list"
    /\ r.val["action_steps"].n > 0

\* The planner returned (its node completed) or raised.
PlannerReturned == Len(executed) >= Len(StageOrder) - 1
PlannerRaised   == pc = "aborted" /\ Len(executed) = Len(StageOrder) - 2

\* The retry loop on its own: a further attempt only after a failed
\* one, and on return the first successful reply's plan, or after three
\* failures the fixed fallback with no template.
RetryDiscipline ==
    /\ calls <= MaxAttempts
    /\ (pc = "plan_call" /\ attempt > 0) =>
          calls = attempt /\ ~HasActionList(reply)
    /\ PlannerReturned =>
          /\ calls >= 1
          /\ {"action_plan", "response_template"} \subseteq DOMAIN state
          /\ HasActionList(reply) =>
                state["action_plan"] = reply.val["action_steps"]
          /\ ~HasActionList(reply) =>
                /\ calls = MaxAttempts
                /\ state["action_plan"] = PlanFallback["action_plan"]
                /\ state["response_template"] = JText(<<>>)

\* C10: the planner makes at least 1 and at most 3 external calls per run,
\* retries only after a failed attempt, returns the first success or, after
\* three failures, the fixed fallback, and in every case returns a value
\* with an action plan and a response template, never nothing.
C10_PlannerAlwaysReturns ==
    /\ RetryDiscipline
    /\ ~PlannerRaised

====
